---- MODULE Spec2Model ----
(***************************************************************************)
(* Model of privx_api/auth.py: the AuthAPI client class.                   *)
(*                                                                         *)
(* Every method of AuthAPI is a straight-line Python function that calls   *)
(* one helper of the base class (BasePrivXAPI) and wraps what the helper   *)
(* hands back.  A method is modelled as an operator from its arguments     *)
(* (self included) and the outcome of the transport to what the call       *)
(* does: the requests it hands to the base layer, the lines it writes to   *)
(* standard output, the client object afterwards and the value it returns  *)
(* or the exception it lets through.  One action per method applies the    *)
(* operator to inputs drawn from small sets.                               *)
(*                                                                         *)
(* Python values: Optional[T] is None or Some(v); str and int are TLA+     *)
(* strings and integers; a dict is a function from its keys (a record).    *)
(***************************************************************************)
EXTENDS Integers, Sequences, FiniteSets, TLC

VARIABLES
    self,        \* the client object: a function from attribute name to value
    call,        \* the most recent call: method, args, reply, requests, result
    stdout,      \* what the most recent call wrote to standard output
    remembered   \* history variable: one earlier call (SpecHist only)

vars == <<self, call, stdout, remembered>>

---------------------------------------------------------------------------
(* Python values *)

None == <<"None">>
Some(v) == <<"Some", v>>
Val(o) == o[2]
Optional(S) == {None} \cup {Some(v) : v \in S}

EmptyDict == <<>>

(* http.HTTPStatus, the two members auth.py uses *)
HTTPStatus == [OK |-> 200, CREATED |-> 201]

(* privx_api.enums.UrlEnum.AUTH: the URL templates are referred to by name *)
AUTH ==
    [STATUS                  |-> "AUTH.STATUS",
     IDP_CLIENT              |-> "AUTH.IDP_CLIENT",
     IDP_CLIENTS             |-> "AUTH.IDP_CLIENTS",
     REGENERATE_IDP_CLIENT   |-> "AUTH.REGENERATE_IDP_CLIENT",
     USER_SESSIONS           |-> "AUTH.USER_SESSIONS",
     SOURCE_SESSIONS         |-> "AUTH.SOURCE_SESSIONS",
     SEARCH_SESSIONS         |-> "AUTH.SEARCH_SESSIONS",
     TERMINATE_SESSION       |-> "AUTH.TERMINATE_SESSION",
     TERMINATE_USER_SESSIONS |-> "AUTH.TERMINATE_USER_SESSIONS",
     LOGOUT                  |-> "AUTH.LOGOUT"]

---------------------------------------------------------------------------
(* Input sets *)

(* identifiers of IDP clients, users, sources and sessions *)
NumIds == 2
IdPool == <<"id1", "id2", "id3", "id4">>
Ids == {IdPool[i] : i \in 1..NumIds}
IdpClients == {[name |-> "idp1"], [name |-> "idp2"]}
Usernames == {"alice"}
Passwords == {"secret"}
Offsets == {10}
Limits == {50}
SortKeys == {"created"}
SortDirs == {"DESC"}
SearchPayloads == {EmptyDict, [keywords |-> "ssh"]}

(* offset, limit, sort_key, sort_dir: none supplied, the paging pair only, *)
(* the sort pair only, or all four                                         *)
Supplied(p) == {k \in DOMAIN p : p[k] # None}
Pagings ==
    {p \in [offset : Optional(Offsets), limit : Optional(Limits),
            sort_key : Optional(SortKeys), sort_dir : Optional(SortDirs)] :
        Supplied(p) \in {{}, {"offset", "limit"}, {"sort_key", "sort_dir"},
                         {"offset", "limit", "sort_key", "sort_dir"}}}

(* What the transport does with the exchange of a call: it hands back a    *)
(* status and a decoded body, or the request layer raises.                 *)
Replies ==
    {[raised |-> FALSE, status |-> 200, data |-> "body_ok"],
     [raised |-> FALSE, status |-> 404, data |-> "body_err"],
     [raised |-> TRUE, exc |-> "InternalAPIException"]}

Tokens == {"token"}

---------------------------------------------------------------------------
(* The base layer (privx_api.base, privx_api.response, privx_api.utils) *)

(* One call of a base HTTP helper: one request handed to the transport,    *)
(* whose status and decoded body come back as a pair unless the request    *)
(* layer raises.                                                           *)
_http(verb, url_name, kwargs, reply) ==
    IF reply.raised
    THEN [request |-> [verb |-> verb, url |-> url_name, kwargs |-> kwargs],
          raised |-> TRUE, exc |-> reply.exc]
    ELSE [request |-> [verb |-> verb, url |-> url_name, kwargs |-> kwargs],
          raised |-> FALSE, response_status |-> reply.status, data |-> reply.data]

_http_get(url_name, kwargs, reply) == _http("GET", url_name, kwargs, reply)
_http_post(url_name, kwargs, reply) == _http("POST", url_name, kwargs, reply)
_http_put(url_name, kwargs, reply) == _http("PUT", url_name, kwargs, reply)
_http_delete(url_name, kwargs, reply) == _http("DELETE", url_name, kwargs, reply)

(* Login of the client: one token exchange; a failure raises, a success    *)
(* leaves the access token on the client object.                           *)
_authenticate(slf, username, password, reply) ==
    IF reply.raised
    THEN [request |-> [login |-> [username |-> username, password |-> password]],
          raised |-> TRUE, exc |-> reply.exc, self |-> slf]
    ELSE IF reply.status # HTTPStatus.OK
    THEN [request |-> [login |-> [username |-> username, password |-> password]],
          raised |-> TRUE, exc |-> "InternalAPIException", self |-> slf]
    ELSE [request |-> [login |-> [username |-> username, password |-> password]],
          raised |-> FALSE,
          self |-> [slf EXCEPT !["_access_token"] = Some(CHOOSE t \in Tokens : TRUE)]]

(* Query parameters from keyword arguments: the supplied ones, as given *)
_get_search_params(kwargs) ==
    [k \in {n \in DOMAIN kwargs : kwargs[n] # None} |-> Val(kwargs[k])]

(* utils.get_value: the value, or the default when the value is None *)
get_value(val, default) == IF val = None THEN default ELSE Val(val)

(* The response envelope: transport status, expected status, payload *)
PrivXAPIResponse(response_status, expected_status, data) ==
    [response_status |-> response_status,
     expected_status |-> expected_status,
     data |-> data]

---------------------------------------------------------------------------
(* What a call does.  requests: the requests handed to the base layer, in  *)
(* order; stdout: the lines printed; self: the client object afterwards;   *)
(* result: the value of the return statement, or the exception that left   *)
(* the method.  A def without a return statement returns None.             *)

Returns(slf, requests, printed, value) ==
    [self |-> slf, requests |-> requests, stdout |-> printed,
     result |-> [kind |-> "return", value |-> value]]

Raises(slf, requests, printed, exc) ==
    [self |-> slf, requests |-> requests, stdout |-> printed,
     result |-> [kind |-> "raise", exc |-> exc]]

(* print(a, b): one line made of the two arguments *)
print(a, b) == <<<<a, b>>>>

---------------------------------------------------------------------------
(* AuthAPI *)

authenticate(slf, username, password, reply) ==
    LET r == _authenticate(slf, username, password, reply) IN
    IF r.raised THEN Raises(r.self, <<r.request>>, <<>>, r.exc)
    ELSE Returns(r.self, <<r.request>>, <<>>, None)

get_auth_service_status(slf, reply) ==
    LET r == _http_get(AUTH.STATUS, <<>>, reply) IN
    IF r.raised THEN Raises(slf, <<r.request>>, <<>>, r.exc)
    ELSE Returns(slf, <<r.request>>, <<>>,
                 Some(PrivXAPIResponse(r.response_status, HTTPStatus.OK, r.data)))

(* Variant: the identifier is passed under the Python argument's old name *)
get_idp_client_renamed_param(slf, idp_id, reply) ==
    LET r == _http_get(AUTH.IDP_CLIENT, [path_params |-> [id |-> idp_id]], reply) IN
    IF r.raised THEN Raises(slf, <<r.request>>, <<>>, r.exc)
    ELSE Returns(slf, <<r.request>>, <<>>,
                 Some(PrivXAPIResponse(r.response_status, HTTPStatus.OK, r.data)))

get_idp_client(slf, idp_id, reply) ==
    LET r == _http_get(AUTH.IDP_CLIENT, [path_params |-> [idp_id |-> idp_id]], reply) IN
    IF r.raised THEN Raises(slf, <<r.request>>, <<>>, r.exc)
    ELSE Returns(slf, <<r.request>>, <<>>,
                 Some(PrivXAPIResponse(r.response_status, HTTPStatus.OK, r.data)))

create_idp_client(slf, idp_client, reply) ==
    LET r == _http_post(AUTH.IDP_CLIENTS, [body |-> idp_client], reply) IN
    IF r.raised THEN Raises(slf, <<r.request>>, <<>>, r.exc)
    ELSE Returns(slf, <<r.request>>, <<>>,
                 Some(PrivXAPIResponse(r.response_status, HTTPStatus.CREATED, r.data)))

update_idp_client(slf, idp_id, idp_client, reply) ==
    LET r == _http_put(AUTH.IDP_CLIENT,
                       [path_params |-> [idp_id |-> idp_id], body |-> idp_client],
                       reply) IN
    IF r.raised THEN Raises(slf, <<r.request>>, <<>>, r.exc)
    ELSE Returns(slf, <<r.request>>, <<>>,
                 Some(PrivXAPIResponse(r.response_status, HTTPStatus.OK, r.data)))

delete_idp_client(slf, idp_id, reply) ==
    LET r == _http_delete(AUTH.IDP_CLIENT, [path_params |-> [idp_id |-> idp_id]], reply) IN
    IF r.raised THEN Raises(slf, <<r.request>>, <<>>, r.exc)
    ELSE Returns(slf, <<r.request>>, <<>>,
                 Some(PrivXAPIResponse(r.response_status, HTTPStatus.OK, r.data)))

(* Variant: a POST that expects CREATED, as create_idp_client does *)
regenerate_idp_client_config_created(slf, idp_id, reply) ==
    LET r == _http_post(AUTH.REGENERATE_IDP_CLIENT,
                        [path_params |-> [idp_id |-> idp_id]], reply) IN
    IF r.raised THEN Raises(slf, <<r.request>>, <<>>, r.exc)
    ELSE Returns(slf, <<r.request>>, <<>>,
                 Some(PrivXAPIResponse(r.response_status, HTTPStatus.CREATED, r.data)))

regenerate_idp_client_config(slf, idp_id, reply) ==
    LET r == _http_post(AUTH.REGENERATE_IDP_CLIENT,
                        [path_params |-> [idp_id |-> idp_id]], reply) IN
    IF r.raised THEN Raises(slf, <<r.request>>, <<>>, r.exc)
    ELSE Returns(slf, <<r.request>>, <<>>,
                 Some(PrivXAPIResponse(r.response_status, HTTPStatus.OK, r.data)))

(* offset, limit, sort_key and sort_dir are accepted and not used; the     *)
(* status and the data are printed before the envelope is returned.        *)
get_user_sessions(slf, user_id, offset, limit, sort_key, sort_dir, reply) ==
    LET r == _http_get(AUTH.USER_SESSIONS, [path_params |-> [user_id |-> user_id]], reply) IN
    IF r.raised THEN Raises(slf, <<r.request>>, <<>>, r.exc)
    ELSE Returns(slf, <<r.request>>, print(r.response_status, r.data),
                 Some(PrivXAPIResponse(r.response_status, HTTPStatus.OK, r.data)))

(* Variant: the first two constructor arguments swapped *)
get_source_sessions_swapped(slf, source_id, offset, limit, sort_key, sort_dir, reply) ==
    LET r == _http_get(AUTH.SOURCE_SESSIONS,
                       [path_params |-> [source_id |-> source_id]], reply) IN
    IF r.raised THEN Raises(slf, <<r.request>>, <<>>, r.exc)
    ELSE Returns(slf, <<r.request>>, <<>>,
                 Some(PrivXAPIResponse(HTTPStatus.OK, r.response_status, r.data)))

(* offset, limit, sort_key and sort_dir are accepted and not used *)
get_source_sessions(slf, source_id, offset, limit, sort_key, sort_dir, reply) ==
    LET r == _http_get(AUTH.SOURCE_SESSIONS,
                       [path_params |-> [source_id |-> source_id]], reply) IN
    IF r.raised THEN Raises(slf, <<r.request>>, <<>>, r.exc)
    ELSE Returns(slf, <<r.request>>, <<>>,
                 Some(PrivXAPIResponse(r.response_status, HTTPStatus.OK, r.data)))

(* Variant: the sort parameters go out under their Python names *)
search_sessions_python_keys(slf, offset, limit, sort_key, sort_dir, search_payload, reply) ==
    LET search_params == _get_search_params(
            [offset |-> offset, limit |-> limit, sort_key |-> sort_key, sort_dir |-> sort_dir])
        r == _http_post(AUTH.SEARCH_SESSIONS,
                        [query_params |-> search_params,
                         body |-> get_value(search_payload, EmptyDict)],
                        reply) IN
    IF r.raised THEN Raises(slf, <<r.request>>, <<>>, r.exc)
    ELSE Returns(slf, <<r.request>>, <<>>,
                 Some(PrivXAPIResponse(r.response_status, HTTPStatus.OK, r.data)))

(* Variant: the default body is one dict kept on the client object, and a  *)
(* supplied payload is remembered in it (a shared mutable default).        *)
search_sessions_shared_default(slf, offset, limit, sort_key, sort_dir, search_payload, reply) ==
    LET search_params == _get_search_params(
            [offset |-> offset, limit |-> limit, sortkey |-> sort_key, sortdir |-> sort_dir])
        default == IF "_default_payload" \in DOMAIN slf
                   THEN Val(slf["_default_payload"]) ELSE EmptyDict
        body == get_value(search_payload, default)
        after == [a \in DOMAIN slf \cup {"_default_payload"} |->
                    IF a = "_default_payload" THEN Some(body) ELSE slf[a]]
        r == _http_post(AUTH.SEARCH_SESSIONS,
                        [query_params |-> search_params, body |-> body],
                        reply) IN
    IF r.raised THEN Raises(after, <<r.request>>, <<>>, r.exc)
    ELSE Returns(after, <<r.request>>, <<>>,
                 Some(PrivXAPIResponse(r.response_status, HTTPStatus.OK, r.data)))

search_sessions(slf, offset, limit, sort_key, sort_dir, search_payload, reply) ==
    LET search_params == _get_search_params(
            [offset |-> offset, limit |-> limit, sortkey |-> sort_key, sortdir |-> sort_dir])
        r == _http_post(AUTH.SEARCH_SESSIONS,
                        [query_params |-> search_params,
                         body |-> get_value(search_payload, EmptyDict)],
                        reply) IN
    IF r.raised THEN Raises(slf, <<r.request>>, <<>>, r.exc)
    ELSE Returns(slf, <<r.request>>, <<>>,
                 Some(PrivXAPIResponse(r.response_status, HTTPStatus.OK, r.data)))

(* Variant: the exception of the request layer is caught and None returned *)
terminate_session_swallows(slf, session_id, reply) ==
    LET r == _http_post(AUTH.TERMINATE_SESSION,
                        [path_params |-> [session_id |-> session_id]], reply) IN
    IF r.raised THEN Returns(slf, <<r.request>>, <<>>, None)
    ELSE Returns(slf, <<r.request>>, <<>>,
                 Some(PrivXAPIResponse(r.response_status, HTTPStatus.OK, r.data)))

terminate_session(slf, session_id, reply) ==
    LET r == _http_post(AUTH.TERMINATE_SESSION,
                        [path_params |-> [session_id |-> session_id]], reply) IN
    IF r.raised THEN Raises(slf, <<r.request>>, <<>>, r.exc)
    ELSE Returns(slf, <<r.request>>, <<>>,
                 Some(PrivXAPIResponse(r.response_status, HTTPStatus.OK, r.data)))

terminate_user_sessions(slf, user_id, reply) ==
    LET r == _http_post(AUTH.TERMINATE_USER_SESSIONS,
                        [path_params |-> [user_id |-> user_id]], reply) IN
    IF r.raised THEN Raises(slf, <<r.request>>, <<>>, r.exc)
    ELSE Returns(slf, <<r.request>>, <<>>,
                 Some(PrivXAPIResponse(r.response_status, HTTPStatus.OK, r.data)))

(* Variant: a reply other than OK is retried once *)
logout_retries(slf, reply) ==
    LET r == _http_post(AUTH.LOGOUT, <<>>, reply) IN
    IF r.raised THEN Raises(slf, <<r.request>>, <<>>, r.exc)
    ELSE IF r.response_status # HTTPStatus.OK
    THEN Returns(slf, <<r.request, r.request>>, <<>>,
                 Some(PrivXAPIResponse(r.response_status, HTTPStatus.OK, r.data)))
    ELSE Returns(slf, <<r.request>>, <<>>,
                 Some(PrivXAPIResponse(r.response_status, HTTPStatus.OK, r.data)))

logout(slf, reply) ==
    LET r == _http_post(AUTH.LOGOUT, <<>>, reply) IN
    IF r.raised THEN Raises(slf, <<r.request>>, <<>>, r.exc)
    ELSE Returns(slf, <<r.request>>, <<>>,
                 Some(PrivXAPIResponse(r.response_status, HTTPStatus.OK, r.data)))

---------------------------------------------------------------------------
(* The state machine: a caller invoking the methods one after another *)

NoCall == [method |-> "none"]

Init ==
    /\ self = [a \in {"_access_token"} |-> None]
    /\ call = NoCall
    /\ stdout = <<>>
    /\ remembered = NoCall

(* One synchronous invocation, from entry to return or raise *)
Invoke(method, args, reply, out) ==
    /\ self' = out.self
    /\ call' = [method |-> method, args |-> args, reply |-> reply,
                requests |-> out.requests, result |-> out.result]
    /\ stdout' = out.stdout
    /\ UNCHANGED remembered

Authenticate ==
    \E username \in Usernames, password \in Passwords, reply \in Replies :
        Invoke("authenticate", [username |-> username, password |-> password], reply,
               authenticate(self, username, password, reply))

GetAuthServiceStatus ==
    \E reply \in Replies :
        Invoke("get_auth_service_status", <<>>, reply,
               get_auth_service_status(self, reply))

GetIdpClient ==
    \E idp_id \in Ids, reply \in Replies :
        Invoke("get_idp_client", [idp_id |-> idp_id], reply,
               get_idp_client(self, idp_id, reply))

CreateIdpClient ==
    \E idp_client \in IdpClients, reply \in Replies :
        Invoke("create_idp_client", [idp_client |-> idp_client], reply,
               create_idp_client(self, idp_client, reply))

UpdateIdpClient ==
    \E idp_id \in Ids, idp_client \in IdpClients, reply \in Replies :
        Invoke("update_idp_client", [idp_id |-> idp_id, idp_client |-> idp_client], reply,
               update_idp_client(self, idp_id, idp_client, reply))

DeleteIdpClient ==
    \E idp_id \in Ids, reply \in Replies :
        Invoke("delete_idp_client", [idp_id |-> idp_id], reply,
               delete_idp_client(self, idp_id, reply))

RegenerateIdpClientConfig ==
    \E idp_id \in Ids, reply \in Replies :
        Invoke("regenerate_idp_client_config", [idp_id |-> idp_id], reply,
               regenerate_idp_client_config(self, idp_id, reply))

GetUserSessions ==
    \E user_id \in Ids, p \in Pagings, reply \in Replies :
        Invoke("get_user_sessions", [user_id |-> user_id] @@ p, reply,
               get_user_sessions(self, user_id, p.offset, p.limit,
                                 p.sort_key, p.sort_dir, reply))

GetSourceSessions ==
    \E source_id \in Ids, p \in Pagings, reply \in Replies :
        Invoke("get_source_sessions", [source_id |-> source_id] @@ p, reply,
               get_source_sessions(self, source_id, p.offset, p.limit,
                                   p.sort_key, p.sort_dir, reply))

SearchSessions ==
    \E p \in Pagings, search_payload \in Optional(SearchPayloads), reply \in Replies :
        Invoke("search_sessions", [search_payload |-> search_payload] @@ p, reply,
               search_sessions(self, p.offset, p.limit, p.sort_key, p.sort_dir,
                               search_payload, reply))

TerminateSession ==
    \E session_id \in Ids, reply \in Replies :
        Invoke("terminate_session", [session_id |-> session_id], reply,
               terminate_session(self, session_id, reply))

TerminateUserSessions ==
    \E user_id \in Ids, reply \in Replies :
        Invoke("terminate_user_sessions", [user_id |-> user_id], reply,
               terminate_user_sessions(self, user_id, reply))

Logout ==
    \E reply \in Replies :
        Invoke("logout", <<>>, reply, logout(self, reply))

Next ==
    \/ Authenticate
    \/ GetAuthServiceStatus
    \/ GetIdpClient
    \/ CreateIdpClient
    \/ UpdateIdpClient
    \/ DeleteIdpClient
    \/ RegenerateIdpClientConfig
    \/ GetUserSessions
    \/ GetSourceSessions
    \/ SearchSessions
    \/ TerminateSession
    \/ TerminateUserSessions
    \/ Logout

Spec == Init /\ [][Next]_vars

(* The same caller, with an observer that may keep a copy of any finished  *)
(* call; remembered is a history variable, the program never reads it.     *)
Remember ==
    /\ call # NoCall
    /\ remembered' = call
    /\ UNCHANGED <<self, call, stdout>>

NextHist ==
    \/ Next
    \/ Remember

SpecHist == Init /\ [][NextHist]_vars

---------------------------------------------------------------------------
(* Properties *)

EndpointMethods ==
    {"get_auth_service_status", "get_idp_client", "create_idp_client",
     "update_idp_client", "delete_idp_client", "regenerate_idp_client_config",
     "get_user_sessions", "get_source_sessions", "search_sessions",
     "terminate_session", "terminate_user_sessions", "logout"}

PublicMethods == EndpointMethods \cup {"authenticate"}

SessionListings == {"get_user_sessions", "get_source_sessions", "search_sessions"}

PagingArgs == {"offset", "limit", "sort_key", "sort_dir"}

(* the query-string key of each paging argument *)
QueryKey ==
    [offset |-> "offset", limit |-> "limit", sort_key |-> "sortkey", sort_dir |-> "sortdir"]

Returned == call.result.kind = "return"
Envelope == Val(call.result.value)
Request == call.requests[1]

(* C1: one invocation of an endpoint method hands exactly one request to   *)
(* the base layer, whatever the transport answers: never none, never two.  *)
C1_ExactlyOneRequest ==
    call.method \in EndpointMethods => Len(call.requests) = 1

C1_Witness ==
    /\ call.method = "logout"
    /\ ~call.reply.raised
    /\ call.reply.status = 404
    /\ Len(call.requests) = 1

(* C2: when the base helper hands back (status, data), the endpoint method *)
(* returns, and the envelope holds exactly that status and that data, for  *)
(* success and non-success statuses alike.                                 *)
C2_StatusAndDataPassThrough ==
    (call.method \in EndpointMethods /\ ~call.reply.raised) =>
        /\ Returned
        /\ call.result.value # None
        /\ Envelope.response_status = call.reply.status
        /\ Envelope.data = call.reply.data

C2_Witness ==
    /\ call.method = "get_source_sessions"
    /\ ~call.reply.raised
    /\ call.reply.status = 404
    /\ Returned
    /\ Envelope.response_status = 404
    /\ Envelope.data = "body_err"

(* C3: get_user_sessions, get_source_sessions and search_sessions put      *)
(* every supplied offset, limit, sort_key and sort_dir into the query      *)
(* parameters of the request they issue.                                   *)
C3_PagingReachesQuery ==
    call.method \in SessionListings =>
        \A k \in PagingArgs :
            call.args[k] # None =>
                /\ "query_params" \in DOMAIN Request.kwargs
                /\ QueryKey[k] \in DOMAIN Request.kwargs.query_params
                /\ Request.kwargs.query_params[QueryKey[k]] = Val(call.args[k])

(* C4: the expected status in the returned envelope depends on the method  *)
(* alone: CREATED for create_idp_client, OK for every other endpoint.      *)
C4_ExpectedStatusFixed ==
    (call.method \in EndpointMethods /\ Returned) =>
        /\ call.result.value # None
        /\ Envelope.expected_status =
              IF call.method = "create_idp_client"
              THEN HTTPStatus.CREATED ELSE HTTPStatus.OK

C4_Witness ==
    /\ call.method = "create_idp_client"
    /\ Returned
    /\ call.reply.status = 404
    /\ Envelope.expected_status = 201

(* C5: every public method, authenticate included, returns an envelope     *)
(* holding the status and payload of its exchange when it does not raise.  *)
C5_EveryPublicMethodReturnsEnvelope ==
    (call.method \in PublicMethods /\ Returned) =>
        /\ call.result.value # None
        /\ Envelope.response_status = call.reply.status
        /\ Envelope.data = call.reply.data

(* C6: when the request layer raises, the method lets that exception       *)
(* through: no envelope, the same exception, no further request.           *)
C6_ExceptionPropagates ==
    (call.method \in PublicMethods /\ call.reply.raised) =>
        /\ call.result = [kind |-> "raise", exc |-> call.reply.exc]
        /\ Len(call.requests) = 1

C6_Witness ==
    /\ call.method = "authenticate"
    /\ call.reply.raised
    /\ call.result.kind = "raise"
    /\ call.result.exc = "InternalAPIException"
    /\ Len(call.requests) = 1

(* C7: each endpoint method has a fixed verb and URL template, passes the  *)
(* caller's identifier under the template's parameter name, and a body is  *)
(* sent by create_idp_client, update_idp_client and search_sessions only.  *)
VerbOf ==
    [get_auth_service_status      |-> "GET",
     get_idp_client               |-> "GET",
     create_idp_client            |-> "POST",
     update_idp_client            |-> "PUT",
     delete_idp_client            |-> "DELETE",
     regenerate_idp_client_config |-> "POST",
     get_user_sessions            |-> "GET",
     get_source_sessions          |-> "GET",
     search_sessions              |-> "POST",
     terminate_session            |-> "POST",
     terminate_user_sessions      |-> "POST",
     logout                       |-> "POST"]

PathParamOf ==
    [get_idp_client               |-> "idp_id",
     update_idp_client            |-> "idp_id",
     delete_idp_client            |-> "idp_id",
     regenerate_idp_client_config |-> "idp_id",
     get_user_sessions            |-> "user_id",
     get_source_sessions          |-> "source_id",
     terminate_session            |-> "session_id",
     terminate_user_sessions      |-> "user_id"]

C7_VerbUrlAndParameters ==
    call.method \in EndpointMethods =>
        /\ Request.verb = VerbOf[call.method]
        /\ call.method \in {"get_idp_client", "update_idp_client", "delete_idp_client"}
              => Request.url = AUTH.IDP_CLIENT
        /\ call.method = "create_idp_client" => Request.url = AUTH.IDP_CLIENTS
        /\ IF call.method \in DOMAIN PathParamOf
           THEN /\ "path_params" \in DOMAIN Request.kwargs
                /\ DOMAIN Request.kwargs.path_params = {PathParamOf[call.method]}
                /\ Request.kwargs.path_params[PathParamOf[call.method]]
                      = call.args[PathParamOf[call.method]]
           ELSE "path_params" \notin DOMAIN Request.kwargs
        /\ "body" \in DOMAIN Request.kwargs
              <=> call.method \in {"create_idp_client", "update_idp_client", "search_sessions"}
        /\ call.method \in {"create_idp_client", "update_idp_client"}
              => Request.kwargs.body = call.args.idp_client

C7_Witness ==
    /\ call.method = "update_idp_client"
    /\ Request.verb = "PUT"
    /\ Request.url = AUTH.IDP_CLIENT
    /\ Request.kwargs.path_params = [idp_id |-> "id2"]
    /\ Request.kwargs.body = [name |-> "idp1"]

(* C8: two calls of the same endpoint method with the same arguments issue *)
(* the same request, however many other calls lie between them, and with   *)
(* the same reply of the transport they end the same way.                  *)
C8_NoStateSharedBetweenCalls ==
    (/\ remembered.method \in EndpointMethods
     /\ call.method = remembered.method
     /\ call.args = remembered.args) =>
        /\ call.requests = remembered.requests
        /\ call.reply = remembered.reply => call.result = remembered.result

C8_Witness ==
    /\ remembered.method = "search_sessions"
    /\ call.method = "search_sessions"
    /\ call.args = remembered.args
    /\ call.args.search_payload = None
    /\ call.reply # remembered.reply
    /\ self["_access_token"] # None
    /\ call.requests = remembered.requests

(* C9: search_sessions sends the supplied payload as the body, an empty    *)
(* dict when the payload is None, and query parameters taken from offset,  *)
(* limit, sort_key and sort_dir alone, under offset, limit, sortkey and    *)
(* sortdir.                                                                *)
C9_SearchBodyAndQuery ==
    call.method = "search_sessions" =>
        /\ DOMAIN Request.kwargs = {"query_params", "body"}
        /\ Request.kwargs.body =
              IF call.args.search_payload = None
              THEN EmptyDict ELSE Val(call.args.search_payload)
        /\ \A q \in DOMAIN Request.kwargs.query_params :
              \E k \in PagingArgs :
                  /\ q = QueryKey[k]
                  /\ call.args[k] # None
                  /\ Request.kwargs.query_params[q] = Val(call.args[k])

C9_Witness ==
    /\ call.method = "search_sessions"
    /\ call.args.search_payload = None
    /\ Request.kwargs.body = EmptyDict
    /\ DOMAIN Request.kwargs.query_params = {"offset", "limit", "sortkey", "sortdir"}
    /\ Request.kwargs.query_params.sortkey = "created"

(* C10: a call of an endpoint method writes nothing to standard output and *)
(* leaves every attribute of the client object as it was; get_user_sessions*)
(* writes what get_source_sessions writes for the same arguments.          *)
C10_NoOtherEffect ==
    [][call'.method \in EndpointMethods =>
          /\ stdout' = <<>>
          /\ self' = self
          /\ call'.method = "get_user_sessions" =>
                stdout' = get_source_sessions(self, call'.args.user_id,
                              call'.args.offset, call'.args.limit,
                              call'.args.sort_key, call'.args.sort_dir,
                              call'.reply).stdout]_vars

====
